---- MODULE Spec2Model ----
(***************************************************************************)
(* Bigram phoneme language models of LM_models.py: the count extraction,   *)
(* the add-one estimator (Phoneme_LM), the absolute-discounting back-off   *)
(* estimator (Absdisc_Phoneme_LM) and the evaluation layer (logP,          *)
(* perplexity, surprisal, test).                                           *)
(*                                                                         *)
(* Probabilities are exact rationals <<numerator, denominator>> with a     *)
(* positive denominator.  Python computes them in binary floating point;   *)
(* the model states the arithmetic laws of the estimators, not rounding.   *)
(* A sum of base-2 logarithms is carried as the product of its arguments,  *)
(* so perplexity's logProbs is log2 of the rational kept in the model.     *)
(***************************************************************************)
EXTENDS Integers, Sequences, FiniteSets, TLC

\* ------------------------------------------------------------------ bounds
MaxWords == 2
MaxSeqLen == 3
MaxTestWords == 2
MaxTestLen == 2
DiscDen == 4

\* --------------------------------------------------------------- constants
UNK == "$"
DefaultUnk == TRUE
DefaultD == <<1, 2>>

TrainAlphabet == {"a", "b"}
VocabAlphabet == {"a", "b", "$"}
TestAlphabet == {"a", "z"}
LogPSyms == {"a", "b", "$", "z"}
Universe == {"a", "b", "$", "z", "#", "@"}

ScenarioVocab == {"a", "b", "#", "@"}
ScenarioCorpus == << <<"#", "a", "b", "@">> >>

WordsOver(A, n) == UNION {[1..k -> A] : k \in 0..n}
CorporaOver(A, n, m) == UNION {[1..k -> WordsOver(A, n)] : k \in 0..m}

TrainCorpora == CorporaOver(TrainAlphabet, MaxSeqLen, MaxWords) \cup {ScenarioCorpus}
Vocabularies == (SUBSET VocabAlphabet) \cup {ScenarioVocab}
Discounts == {<<k, DiscDen>> : k \in 1..(DiscDen - 1)} \cup {DefaultD}
TestCorpora == CorporaOver(TestAlphabet, MaxTestLen, MaxTestWords)
EvalTrainCorpora == {<< >>, << <<"a", "b">> >>, << <<"a", "a", "b">>, <<"b">> >>}

\* ------------------------------------------------------ rational arithmetic
Abs(n) == IF n < 0 THEN -n ELSE n

RECURSIVE GCD(_, _)
GCD(a, b) == IF b = 0 THEN a ELSE GCD(b, a % b)

Norm(r) == LET g == GCD(Abs(r[1]), r[2]) IN <<r[1] \div g, r[2] \div g>>
RInt(n) == <<n, 1>>
RAdd(p, q) == Norm(<<p[1] * q[2] + q[1] * p[2], p[2] * q[2]>>)
RSub(p, q) == Norm(<<p[1] * q[2] - q[1] * p[2], p[2] * q[2]>>)
RMul(p, q) == Norm(<<p[1] * q[1], p[2] * q[2]>>)
RDivInt(p, n) == Norm(<<p[1], p[2] * n>>)
RMax0(p) == IF p[1] < 0 THEN <<0, 1>> ELSE p
REq(p, q) == p[1] * q[2] = q[1] * p[2]
RLess(p, q) == p[1] * q[2] < q[1] * p[2]
RLeq(p, q) == p[1] * q[2] <= q[1] * p[2]

RECURSIVE RSum(_, _)
RSum(f, S) == IF S = {} THEN <<0, 1>>
              ELSE LET x == CHOOSE y \in S : TRUE
                   IN RAdd(f[x], RSum(f, S \ {x}))

RECURSIVE NSum(_, _)
NSum(f, S) == IF S = {} THEN 0
              ELSE LET x == CHOOSE y \in S : TRUE
                   IN f[x] + NSum(f, S \ {x})

\* -------------------------------------------------------- count extraction
EmptyDict == [k \in {} |-> 0]

\* range(1, len(ipa_trans)) is empty for a word of fewer than two symbols
Ugrams_current(ipa_trans) ==
    IF Len(ipa_trans) < 2 THEN << >>
    ELSE [j \in 1..(Len(ipa_trans) - 1) |-> ipa_trans[j + 1]]
Ugrams(ipa_trans) ==
    IF Len(ipa_trans) < 2 THEN << >>
    ELSE [j \in 1..(Len(ipa_trans) - 1) |-> ipa_trans[j]]
Bgrams(ipa_trans) ==
    IF Len(ipa_trans) < 2 THEN << >>
    ELSE [j \in 1..(Len(ipa_trans) - 1) |-> <<ipa_trans[j], ipa_trans[j + 1]>>]

RECURSIVE ph_Ugrams(_)
ph_Ugrams(c) == IF c = << >> THEN << >> ELSE Ugrams(Head(c)) \o ph_Ugrams(Tail(c))

RECURSIVE ph_Bgrams(_)
ph_Bgrams(c) == IF c = << >> THEN << >> ELSE Bgrams(Head(c)) \o ph_Bgrams(Tail(c))

Counter(list) == [k \in {list[i] : i \in DOMAIN list} |->
                    Cardinality({i \in DOMAIN list : list[i] = k})]

Count(C, k) == IF k \in DOMAIN C THEN C[k] ELSE 0

\* ---------------------------------------------------- add-one estimator
\* P(ph2 | ph1) = (Nb + 1)/(Nu + L)
AddOneP_noSmoothing(Nb, Nu, L) == Norm(<<Nb, Nu + L>>)
AddOneP(Nb, Nu, L) == Norm(<<Nb + 1, Nu + L>>)

Phoneme_LM_estimate_probs(U, B, S) ==
    LET L == Cardinality(S)
    IN [ph1 \in S |-> [ph2 \in S |-> AddOneP(Count(B, <<ph1, ph2>>), Count(U, ph1), L)]]

\* ------------------------------------------- absolute-discounting estimator
\* N = sum(self.UCOUNTS.values())
TotalN(U) == NSum(U, DOMAIN U)

nPlus_i(U) == Cardinality({p \in DOMAIN U : U[p] > 0})

Zi(U, dd) == RMul(RDivInt(dd, TotalN(U)), RInt(nPlus_i(U)))

\* uniP = max(Ni - d, 0) / N + (Zi * (1/L))
uniP_noBackoff(U, L, dd, ph2) ==
    RDivInt(RMax0(RSub(RInt(Count(U, ph2)), dd)), TotalN(U))
uniP(U, L, dd, ph2) ==
    RAdd(RDivInt(RMax0(RSub(RInt(Count(U, ph2)), dd)), TotalN(U)),
         RMul(Zi(U, dd), <<1, L>>))

nPlus_h(B, ph1) == Cardinality({k \in DOMAIN B : k[1] = ph1})

\* Zh = (d/Nh)*nPlus_h
Zh_overN(U, B, dd, ph1) == RMul(RDivInt(dd, TotalN(U)), RInt(nPlus_h(B, ph1)))
Zh(U, B, dd, ph1) == RMul(RDivInt(dd, Count(U, ph1)), RInt(nPlus_h(B, ph1)))

\* max(Nb - d, 0) / Nh + (Zh * uniP)
biP(U, B, L, dd, ph1, ph2) ==
    RAdd(RDivInt(RMax0(RSub(RInt(Count(B, <<ph1, ph2>>)), dd)), Count(U, ph1)),
         RMul(Zh(U, B, dd, ph1), uniP(U, L, dd, ph2)))

\* d/N is evaluated for the first pair of the first history without counts;
\* N = 0 makes every history such a history.
Absdisc_raises(U, S) == S # {} /\ TotalN(U) = 0

Absdisc_estimate_probs(U, B, S, dd) ==
    LET L == Cardinality(S)
    IN [ph1 \in S |-> [ph2 \in S |->
            IF Count(U, ph1) = 0 THEN uniP(U, L, dd, ph2)
            ELSE biP(U, B, L, dd, ph1, ph2)]]

\* ------------------------------------------------------------------- state
VARIABLES
    corpus,        \* the caller's training corpus
    phoneme_set,   \* the caller's set object; self.phoneme_set is the same object
    unk,           \* the caller's unk argument
    set_arg,       \* elements of the caller's set when the constructor was entered
    corpus_arg,    \* the corpus when the constructor was entered
    variant,       \* "none" | "additive" | "absdisc"
    d,             \* self.d
    UCOUNTS,
    BCOUNTS,
    P,             \* self.P, a dict of dicts
    P_built,       \* self.P as the constructor left it
    estimating,    \* estimate_probs invocations entered
    pc,            \* "start" | "built" | "failed" | "returned"
    call,          \* the last method called
    arg,           \* its argument
    err,           \* the exception it ended in, or "none"
    ret,           \* its return value
    M,             \* perplexity's bigram counter when the call ended
    lookups        \* perplexity's lookups: raw pair and remapped pair

vars == <<corpus, phoneme_set, unk, set_arg, corpus_arg, variant, d, UCOUNTS, BCOUNTS,
          P, P_built, estimating, pc, call, arg, err, ret, M, lookups>>

NoRet == [kind |-> "none", val |-> <<0, 1>>, M |-> 0]

Blank ==
    /\ set_arg = {}
    /\ corpus_arg = << >>
    /\ variant = "none"
    /\ d = DefaultD
    /\ UCOUNTS = EmptyDict
    /\ BCOUNTS = EmptyDict
    /\ P = EmptyDict
    /\ P_built = EmptyDict
    /\ estimating = 0
    /\ pc = "start"
    /\ call = "none"
    /\ arg = << >>
    /\ err = "none"
    /\ ret = NoRet
    /\ M = 0
    /\ lookups = << >>

Init ==
    /\ corpus \in TrainCorpora
    /\ phoneme_set \in Vocabularies
    /\ unk \in BOOLEAN
    /\ Blank

InitEval ==
    /\ corpus \in EvalTrainCorpora
    /\ phoneme_set \in SUBSET VocabAlphabet
    /\ unk \in BOOLEAN
    /\ Blank

\* ------------------------------------------------------------ constructors
\* if unk: self.phoneme_set.add('$')
AddUnk(S, u) == IF u THEN S \cup {UNK} ELSE S

Phoneme_LM_init ==
    /\ pc = "start"
    /\ LET U == Counter(ph_Ugrams(corpus))
           B == Counter(ph_Bgrams(corpus))
           S == AddUnk(phoneme_set, unk)
           T == Phoneme_LM_estimate_probs(U, B, S)
       IN /\ UCOUNTS' = U
          /\ BCOUNTS' = B
          /\ phoneme_set' = S
          /\ P' = T
          /\ P_built' = T
    /\ set_arg' = phoneme_set
    /\ corpus_arg' = corpus
    /\ variant' = "additive"
    /\ estimating' = 1
    /\ pc' = "built"
    /\ call' = "Phoneme_LM"
    /\ UNCHANGED <<corpus, unk, d, arg, err, ret, M, lookups>>

\* Phoneme_LM.__init__(self, corpus, phoneme_set, unk=True) runs the overriding
\* estimate_probs; on success __init__ runs it a second time.
Absdisc_Phoneme_LM_init ==
    /\ pc = "start"
    /\ \E dd \in Discounts :
        LET U == Counter(ph_Ugrams(corpus))
            B == Counter(ph_Bgrams(corpus))
            S == AddUnk(phoneme_set, TRUE)
        IN /\ d' = dd
           /\ UCOUNTS' = U
           /\ BCOUNTS' = B
           /\ phoneme_set' = S
           /\ IF Absdisc_raises(U, S)
              THEN /\ P' = EmptyDict
                   /\ P_built' = EmptyDict
                   /\ estimating' = 1
                   /\ err' = "ZeroDivisionError"
                   /\ pc' = "failed"
              ELSE LET T == Absdisc_estimate_probs(U, B, S, dd)
                   IN /\ P' = T
                      /\ P_built' = T
                      /\ estimating' = 2
                      /\ err' = "none"
                      /\ pc' = "built"
    /\ set_arg' = phoneme_set
    /\ corpus_arg' = corpus
    /\ variant' = "absdisc"
    /\ call' = "Absdisc_Phoneme_LM"
    /\ UNCHANGED <<corpus, unk, arg, ret, M, lookups>>

\* ---------------------------------------------------------------- evaluator
\* self.P[ph1]: a defaultdict(defaultdict) inserts an empty inner dict for a
\* missing outer key; the inner dict has no default factory.
OuterGet(T, ph1) == IF ph1 \in DOMAIN T THEN T
                    ELSE [k \in DOMAIN T \cup {ph1} |-> IF k = ph1 THEN EmptyDict ELSE T[k]]

\* math.log(self.P[ph1][ph2], 2): the table after the access, the exception
\* and the probability whose logarithm is returned.
logP(T, ph1, ph2) ==
    LET T1 == OuterGet(T, ph1)
    IN IF ph2 \notin DOMAIN T1[ph1]
       THEN [P |-> T1, err |-> "KeyError", val |-> <<0, 1>>]
       ELSE IF T1[ph1][ph2][1] <= 0
            THEN [P |-> T1, err |-> "ValueError", val |-> <<0, 1>>]
            ELSE [P |-> T1, err |-> "none", val |-> T1[ph1][ph2]]

\* if ph not in self.phoneme_set: ph = '$'
Remap_keep(S, ph) == ph
Remap(S, ph) == IF ph \notin S THEN UNK ELSE ph

\* The two loops of perplexity from word w, position i on; st carries logProbs
\* (as the product of the probabilities), M and the lookups made so far.
RECURSIVE PerplexityLoop(_, _, _, _, _, _)
PerplexityLoop(T, S, test_corpus, w, i, st) ==
    IF w > Len(test_corpus) THEN st
    ELSE IF i > Len(test_corpus[w]) - 1
         THEN PerplexityLoop(T, S, test_corpus, w + 1, 1, st)
         ELSE LET word == test_corpus[w]
                  ph_h == Remap(S, word[i])
                  ph_i == Remap(S, word[i + 1])
                  r == logP(T, ph_h, ph_i)
                  seen == Append(st.lookups, [raw |-> <<word[i], word[i + 1]>>,
                                              key |-> <<ph_h, ph_i>>])
              IN IF r.err # "none"
                 THEN [st EXCEPT !.P = r.P, !.err = r.err, !.lookups = seen]
                 ELSE PerplexityLoop(T, S, test_corpus, w, i + 1,
                        [st EXCEPT !.logProbs = RMul(st.logProbs, r.val),
                                   !.M = st.M + 1,
                                   !.lookups = seen])

\* PP = math.pow(2, ((-1/M)*logProbs))
perplexity(T, S, test_corpus) ==
    LET st == PerplexityLoop(T, S, test_corpus, 1, 1,
                [P |-> T, err |-> "none", logProbs |-> <<1, 1>>, M |-> 0, lookups |-> << >>])
    IN IF st.err = "none" /\ st.M = 0 THEN [st EXCEPT !.err = "ZeroDivisionError"] ELSE st

\* test(): every row of the table sums to one; the sums are exact here, and
\* with denominators far below 10^10 "within 10**-10 of 1.0" is "equal to 1".
RowSum(T, S, ph1) == RSum([ph2 \in S |-> T[ph1][ph2]], S)

test(T, S) ==
    IF \E ph1 \in S : ph1 \notin DOMAIN T \/ \E ph2 \in S : ph2 \notin DOMAIN T[ph1]
    THEN "KeyError"
    ELSE IF \E ph1 \in S : ~REq(RowSum(T, S, ph1), <<1, 1>>)
         THEN "AssertionError"
         ELSE "none"

logP_call ==
    /\ pc = "built"
    /\ \E ph1 \in LogPSyms, ph2 \in LogPSyms :
        LET r == logP(P, ph1, ph2)
        IN /\ P' = r.P
           /\ err' = r.err
           /\ ret' = IF r.err = "none" THEN [kind |-> "log2", val |-> r.val, M |-> 0] ELSE NoRet
           /\ arg' = <<ph1, ph2>>
    /\ call' = "logP"
    /\ pc' = "returned"
    /\ UNCHANGED <<corpus, phoneme_set, unk, set_arg, corpus_arg, variant, d, UCOUNTS,
                   BCOUNTS, P_built, estimating, M, lookups>>

perplexity_call ==
    /\ pc = "built"
    /\ \E test_corpus \in TestCorpora :
        LET r == perplexity(P, phoneme_set, test_corpus)
        IN /\ P' = r.P
           /\ err' = r.err
           /\ M' = r.M
           /\ lookups' = r.lookups
           /\ ret' = IF r.err = "none" THEN [kind |-> "pow2", val |-> r.logProbs, M |-> r.M]
                     ELSE NoRet
           /\ arg' = test_corpus
    /\ call' = "perplexity"
    /\ pc' = "returned"
    /\ UNCHANGED <<corpus, phoneme_set, unk, set_arg, corpus_arg, variant, d, UCOUNTS,
                   BCOUNTS, P_built, estimating>>

\* math.log(self.perplexity(test_corpus), 2)
surprisal_call ==
    /\ pc = "built"
    /\ \E test_corpus \in TestCorpora :
        LET r == perplexity(P, phoneme_set, test_corpus)
        IN /\ P' = r.P
           /\ err' = r.err
           /\ M' = r.M
           /\ lookups' = r.lookups
           /\ ret' = IF r.err = "none" THEN [kind |-> "log2pow2", val |-> r.logProbs, M |-> r.M]
                     ELSE NoRet
           /\ arg' = test_corpus
    /\ call' = "surprisal"
    /\ pc' = "returned"
    /\ UNCHANGED <<corpus, phoneme_set, unk, set_arg, corpus_arg, variant, d, UCOUNTS,
                   BCOUNTS, P_built, estimating>>

test_call ==
    /\ pc = "built"
    /\ err' = test(P, phoneme_set)
    /\ ret' = NoRet
    /\ arg' = << >>
    /\ call' = "test"
    /\ pc' = "returned"
    /\ UNCHANGED <<corpus, phoneme_set, unk, set_arg, corpus_arg, variant, d, UCOUNTS,
                   BCOUNTS, P, P_built, estimating, M, lookups>>

\* The caller drops the result of the call (or catches its exception) and goes
\* on to its next call on the same model object.
caller_continue ==
    /\ pc = "returned"
    /\ pc' = "built"
    /\ call' = "none"
    /\ arg' = << >>
    /\ err' = "none"
    /\ ret' = NoRet
    /\ M' = 0
    /\ lookups' = << >>
    /\ UNCHANGED <<corpus, phoneme_set, unk, set_arg, corpus_arg, variant, d, UCOUNTS,
                   BCOUNTS, P, P_built, estimating>>

\* -------------------------------------------------------- specifications
Next == Phoneme_LM_init \/ Absdisc_Phoneme_LM_init

Spec == Init /\ [][Next]_vars

NextEval ==
    \/ Phoneme_LM_init
    \/ Absdisc_Phoneme_LM_init
    \/ logP_call
    \/ perplexity_call
    \/ surprisal_call
    \/ test_call
    \/ caller_continue

SpecEval == InitEval /\ [][NextEval]_vars

\* ------------------------------------------------------------ properties
One == <<1, 1>>
Zero == <<0, 1>>

\* every symbol of the training corpus belongs to the model's vocabulary
VocabClosed ==
    \A w \in DOMAIN corpus_arg : \A i \in DOMAIN corpus_arg[w] : corpus_arg[w][i] \in phoneme_set

HasBigram(c) == \E w \in DOMAIN c : Len(c[w]) >= 2

\* positions (w, i) of the corpus at which x is followed by y, resp. by anything
Positions(c) == UNION {{<<w, i>> : i \in DOMAIN c[w]} : w \in DOMAIN c}

PosB(c, x, y) ==
    Cardinality({q \in Positions(c) :
                    /\ q[2] + 1 <= Len(c[q[1]])
                    /\ c[q[1]][q[2]] = x
                    /\ c[q[1]][q[2] + 1] = y})
PosU(c, x) ==
    Cardinality({q \in Positions(c) :
                    /\ q[2] + 1 <= Len(c[q[1]])
                    /\ c[q[1]][q[2]] = x})
NumBigrams(c) ==
    NSum([w \in DOMAIN c |-> IF Len(c[w]) >= 2 THEN Len(c[w]) - 1 ELSE 0], DOMAIN c)

\* C1: an absolute-discounting model built from a corpus with at least one
\* bigram, all of whose symbols are in the vocabulary, has rows that sum to 1
\* for every history, seen or unseen, and every discount in (0, 1).
C1_AbsdiscNormalized ==
    (pc = "built" /\ variant = "absdisc" /\ VocabClosed /\ HasBigram(corpus_arg)
        /\ RLess(Zero, d) /\ RLess(d, One))
    => \A h \in phoneme_set : REq(RowSum(P, phoneme_set, h), One)

C1_Witness ==
    /\ pc = "built" /\ variant = "absdisc" /\ VocabClosed /\ HasBigram(corpus_arg)
    /\ d # DefaultD
    /\ \E h \in phoneme_set : Count(UCOUNTS, h) = 0
    /\ \E h \in phoneme_set : Count(UCOUNTS, h) >= 2 /\ nPlus_h(BCOUNTS, h) >= 2

\* C2: an add-one model built from a corpus (the empty one included) whose
\* symbols are all in the vocabulary has P(c|h) = (count(h,c) + 1)/(count(h) + L)
\* for all h, c of the vocabulary, and every row sums to exactly 1.
C2_AdditiveFormulaAndSum ==
    (pc = "built" /\ variant = "additive" /\ VocabClosed)
    => \A h \in phoneme_set :
          /\ \A c \in phoneme_set :
                REq(P[h][c], <<PosB(corpus_arg, h, c) + 1,
                               PosU(corpus_arg, h) + Cardinality(phoneme_set)>>)
          /\ REq(RowSum(P, phoneme_set, h), One)

C2_Witness ==
    /\ pc = "built" /\ variant = "additive" /\ VocabClosed
    /\ Cardinality(phoneme_set) >= 2
    /\ \E h \in phoneme_set, c \in phoneme_set : PosB(corpus_arg, h, c) >= 2

ScenarioResult ==
    /\ Cardinality(phoneme_set) = 4
    /\ "a" \in DOMAIN P /\ {"a", "b"} \subseteq DOMAIN P["a"]
    /\ REq(P["a"]["b"], <<2, 5>>)
    /\ REq(P["a"]["a"], <<1, 5>>)
    /\ REq(RSum([c \in ScenarioVocab |-> IF c \in DOMAIN P["a"] THEN P["a"][c] ELSE Zero],
                ScenarioVocab), One)

ScenarioBuilt ==
    /\ pc = "built" /\ variant = "additive"
    /\ corpus_arg = ScenarioCorpus /\ set_arg = ScenarioVocab

\* C3 as stated: Phoneme_LM(corpus, phoneme_set), i.e. with unk left at its
\* default, on the scenario inputs gives L = 4, P(b|a) = 2/5, P(a|a) = 1/5 and
\* a row for a that sums to 1 over {a, b, #, @}.
C3_Original == (ScenarioBuilt /\ unk = DefaultUnk) => ScenarioResult

\* C3 amended: Phoneme_LM(corpus, phoneme_set, unk=False) on the scenario
\* inputs gives L = 4, P(b|a) = 2/5, P(a|a) = 1/5 and a row for a that sums to
\* 1 over {a, b, #, @}.
C3_Amended == (ScenarioBuilt /\ unk = FALSE) => ScenarioResult

C3_Witness == ScenarioBuilt /\ unk = FALSE /\ ScenarioResult

\* C4: building the absolute-discounting model from an empty corpus ends in a
\* validation error raised before estimate_probs is entered; no division by
\* zero is attempted.
C4_EmptyCorpusRejected ==
    (variant = "absdisc" /\ pc # "start" /\ ~HasBigram(corpus_arg))
    => (pc = "failed" /\ err = "ValidationError" /\ estimating = 0 /\ P = EmptyDict)

\* C5: a constructor leaves the caller's vocabulary set and corpus with the
\* elements they had when it was called.
C5_InputsNotMutated ==
    (pc # "start") => (phoneme_set = set_arg /\ corpus = corpus_arg)

\* C6: after construction the table P stays the table the constructor
\* produced, whatever evaluator calls are made and however they end.
C6_PImmutable ==
    (pc \in {"built", "returned"}) => P = P_built

\* C7: every pair perplexity looks up is the raw pair with each position
\* replaced by '$' exactly when it is outside the vocabulary, both symbols of
\* the looked-up pair are in the vocabulary, and P holds an entry for it.
C7_LookupDefined ==
    (call \in {"perplexity", "surprisal"})
    => \A n \in DOMAIN lookups :
          LET l == lookups[n]
          IN /\ \A k \in 1..2 :
                  /\ l.key[k] = (IF l.raw[k] \in phoneme_set THEN l.raw[k] ELSE UNK)
                  /\ l.key[k] \in phoneme_set
             /\ l.key[1] \in DOMAIN P_built
             /\ l.key[2] \in DOMAIN P_built[l.key[1]]

\* C8: in a model of either variant built from a corpus with at least one
\* bigram, every entry over vocabulary x vocabulary is in (0, 1], so logP
\* never takes the logarithm of 0 there.
C8_ProbInUnitInterval ==
    (pc = "built" /\ HasBigram(corpus_arg))
    => \A h \in phoneme_set, c \in phoneme_set :
          /\ RLess(Zero, P[h][c])
          /\ RLeq(P[h][c], One)
          /\ logP(P, h, c).err = "none"

C8_Witness ==
    /\ pc = "built" /\ variant = "absdisc" /\ HasBigram(corpus_arg)
    /\ \E h \in phoneme_set : Count(UCOUNTS, h) = 0
    /\ \E h \in phoneme_set, c \in phoneme_set :
          Count(UCOUNTS, h) > 0 /\ Count(BCOUNTS, <<h, c>>) = 0 /\ Count(UCOUNTS, c) = 0

\* C9: the bigram table counts the positions at which x is followed by y, the
\* unigram table the positions at which x starts a bigram; a unigram count is
\* the sum of the bigram counts of that history, the unigram total is the
\* number of bigrams, and a word's last symbol adds no unigram count.
C9_CountExtraction ==
    (pc # "start")
    => /\ \A x \in Universe :
            /\ Count(UCOUNTS, x) = PosU(corpus_arg, x)
            /\ \A y \in Universe : Count(BCOUNTS, <<x, y>>) = PosB(corpus_arg, x, y)
            /\ Count(UCOUNTS, x) =
                  NSum([y \in Universe |-> Count(BCOUNTS, <<x, y>>)], Universe)
       /\ DOMAIN UCOUNTS \subseteq Universe
       /\ DOMAIN BCOUNTS \subseteq Universe \X Universe
       /\ TotalN(UCOUNTS) = NumBigrams(corpus_arg)

C9_Witness ==
    /\ pc # "start"
    /\ Len(corpus_arg) = 2
    /\ \E x \in Universe : Count(UCOUNTS, x) >= 2
    /\ \E w \in DOMAIN corpus_arg :
          /\ Len(corpus_arg[w]) >= 2
          /\ Count(UCOUNTS, corpus_arg[w][Len(corpus_arg[w])]) = 0

\* C10: perplexity and surprisal of a held-out corpus without any bigram end
\* in a division by zero with M = 0; on a held-out corpus with a bigram they
\* return a value and M is the number of bigrams.
C10_PerplexityOutcome ==
    (pc = "returned" /\ call \in {"perplexity", "surprisal"})
    => IF NumBigrams(arg) = 0
       THEN err = "ZeroDivisionError" /\ M = 0 /\ ret.kind = "none"
       ELSE err = "none" /\ ret.kind # "none" /\ M = NumBigrams(arg)

====
